---- MODULE Spec2Model ----
(***************************************************************************)
(* DataStreamDAT contract integration (lazai-integration/                  *)
(* contract_integration.py): the write operations mint_dat and             *)
(* pay_for_query, the read operation get_dat_stats and the example         *)
(* workflow main, running against a ledger node reached through web3.      *)
(*                                                                         *)
(* The ledger side (the node's transaction pool, block production and the  *)
(* DataStreamDAT contract) is the environment of the program.  The         *)
(* contract's Solidity code is not part of lazai-integration; its          *)
(* behaviour is taken from the data model of the specification (a DAT      *)
(* record per unique fileId, a tokenId assigned at mint time, counters     *)
(* totalQueries and totalEarned, the flag isActive).                       *)
(***************************************************************************)
EXTENDS Integers, Sequences, FiniteSets, TLC

(***************************************************************************)
(* Bounds of the model.                                                    *)
(***************************************************************************)
MaxCalls == 2      \* calls of the public operations per instance
MaxBlock == 3      \* blocks the ledger produces
MaxPolls == 2      \* polls of one receipt wait before the timeout elapses

(***************************************************************************)
(* Program constants.                                                      *)
(***************************************************************************)
MINT_GAS == 500000
PAY_GAS == 200000

(***************************************************************************)
(* Input domains.                                                          *)
(***************************************************************************)
Instances == {"i1", "i2"}
FileIds == {"f1", "f2"}
TokenURIs == {"ipfs://Qm1"}
DataClasses == {"reference"}
DataValues == {"high"}
Queries == {"what is this?"}
Prices == {1}
Payments == {1}
TokenArgs == {1}

None == 0 - 1       \* the value of an absent key or unset local
NoTx == [op |-> "none"]
NoReceipt == [status |-> None, blockNumber |-> None]

\* Dat.py: no dat_info yet.
NoInfo == [transaction_hash |-> NoTx, token_id |-> << >>, status |-> ""]

\* The process of an instance that has been constructed.
Constructed ==
    [contract_address |-> TRUE,   \* DAT_CONTRACT_ADDRESS or the argument is set
     private_key |-> TRUE,        \* PRIVATE_KEY or the argument is set
     ipfs_jwt |-> TRUE,           \* IPFS_JWT is set
     alive |-> TRUE,              \* the endpoint answers is_connected()
     instance |-> "usable",       \* "none", "usable" or what __init__ raised
     probes |-> 1,                \* is_connected() calls made by __init__
     file_id |-> "",              \* Dat.py: file_id
     dat_info |-> NoInfo,         \* Dat.py: dat_info
     upload |-> "none",           \* enhanced_dat.py: upload_result, "none", "ok" or "failed"
     metadata_failed |-> FALSE,   \* enhanced_dat.py: the metadata upload raised
     token_uri |-> "",            \* enhanced_dat.py: token_uri
     files |-> {},                \* files written
     exit |-> None]               \* status passed to sys.exit

VARIABLES
    dats,            \* contract: the DAT records, tokenId = position
    mempool,         \* node: transactions accepted and not yet mined
    receipts,        \* node: receipts of the mined transactions, by transaction
    txCount,         \* node: the account's transaction count in the latest block
    blockNumber,     \* node: height of the latest block
    netGasPrice,     \* node: the gas price it currently quotes
    call,            \* per instance: the operation in progress and its locals
    log,             \* per instance: the calls made so far, with their results
    mainpc,          \* per instance: position in main, or "free" for a plain caller
    run              \* per instance: its process' environment, the outcome of
                     \* the constructor and what the script Dat.py has reported

vars == <<dats, mempool, receipts, txCount, blockNumber, netGasPrice, call, log, mainpc, run>>
ledger == <<dats, mempool, receipts, txCount, blockNumber, netGasPrice>>

(***************************************************************************)
(* The DataStreamDAT contract.                                             *)
(***************************************************************************)
\* fileIdExists(fileId): a DAT record with this fileId has been minted.
fileIdExists(d, f) == \E k \in 1 .. Len(d) : d[k].fileId = f

\* getDATStats(tokenId) of a token that was minted.
TokenMinted(d, t) == t \in 1 .. Len(d)

getDATStats(d, t) ==
    [totalQueries |-> d[t].totalQueries,
     totalEarned |-> d[t].totalEarned,
     isActive |-> d[t].isActive]

\* mintDataDAT reverts for a fileId that has a record; otherwise it creates
\* the record under the next tokenId.
mintDataDATReverts(d, tx) == fileIdExists(d, tx.fileId)

mintDataDAT(d, tx) ==
    Append(d, [fileId |-> tx.fileId,
               tokenURI |-> tx.tokenURI,
               queryPrice |-> tx.queryPrice,
               dataClass |-> tx.dataClass,
               dataValue |-> tx.dataValue,
               totalQueries |-> 0,
               totalEarned |-> 0,
               isActive |-> TRUE])

\* payForQuery reverts for an unknown or inactive token and for a payment
\* below the query price; otherwise it counts the query and the payment.
payForQueryReverts(d, tx) ==
    \/ ~TokenMinted(d, tx.tokenId)
    \/ ~d[tx.tokenId].isActive
    \/ tx.value < d[tx.tokenId].queryPrice

payForQuery(d, tx) ==
    [d EXCEPT ![tx.tokenId].totalQueries = @ + 1,
              ![tx.tokenId].totalEarned = @ + tx.value]

TxReverts(d, tx) ==
    IF tx.op = "mintDataDAT" THEN mintDataDATReverts(d, tx) ELSE payForQueryReverts(d, tx)

TxApply(d, tx) ==
    IF tx.op = "mintDataDAT" THEN mintDataDAT(d, tx) ELSE payForQuery(d, tx)

(***************************************************************************)
(* The ledger node behind web3.                                            *)
(***************************************************************************)
\* The next nonce usable for the account when the pool is counted too.
RECURSIVE PendingCount(_, _)
PendingCount(pool, n) ==
    IF \E tx \in pool : tx.nonce = n THEN PendingCount(pool, n + 1) ELSE n

\* eth.get_transaction_count(address, block_identifier).
get_transaction_count(block_identifier) ==
    IF block_identifier = "pending" THEN PendingCount(mempool, txCount) ELSE txCount

\* Variant: calls that pass no block_identifier read the pending block.
default_block_pending == "pending"

\* eth.default_block, the block_identifier of a call that passes none.
default_block == "latest"

\* The pool takes a transaction whose nonce is not used up; a transaction
\* for a nonce already in the pool must raise the gas price to replace it.
PoolTakes(tx) ==
    /\ tx.nonce >= txCount
    /\ \A old \in mempool : old.nonce = tx.nonce => tx.gasPrice > old.gasPrice

PoolAfter(tx) == {old \in mempool : old.nonce # tx.nonce} \cup {tx}

HasReceipt(tx) == \E r \in receipts : r.tx = tx

ReceiptOf(tx) == CHOOSE r \in receipts : r.tx = tx

(***************************************************************************)
(* The results the operations return (Python dicts: the keys present and   *)
(* their values; gas_used is carried as a key only).                       *)
(***************************************************************************)
NoResult ==
    [keys |-> {}, success |-> FALSE, error |-> "", token_id |-> None, file_id |-> "",
     transaction_hash |-> NoTx, block_number |-> None,
     total_queries |-> None, total_earned |-> None, is_active |-> FALSE]

\* The dict of the except branches: {'success': False, 'error': str(e)}.
Failure(e) ==
    [NoResult EXCEPT !.keys = {"success", "error"}, !.error = e]

\* The dict mint_dat returns for a receipt with status 1.
MintSuccess(c, token_id) ==
    [NoResult EXCEPT
        !.keys = {"success", "token_id", "file_id", "transaction_hash",
                  "block_number", "gas_used"},
        !.success = TRUE,
        !.token_id = token_id,
        !.file_id = c.file_id,
        !.transaction_hash = c.tx_hash,
        !.block_number = c.receipt.blockNumber]

\* The dict pay_for_query returns for a receipt with status 1.
PaySuccess(c) ==
    [NoResult EXCEPT
        !.keys = {"success", "transaction_hash", "block_number", "gas_used"},
        !.success = TRUE,
        !.transaction_hash = c.tx_hash,
        !.block_number = c.receipt.blockNumber]

\* The dict get_dat_stats returns when the contract call answers.
StatsSuccess(c, stats) ==
    [NoResult EXCEPT
        !.keys = {"success", "token_id", "total_queries", "total_earned", "is_active"},
        !.success = TRUE,
        !.token_id = c.token_id,
        !.total_queries = stats.totalQueries,
        !.total_earned = stats.totalEarned,
        !.is_active = stats.isActive]

(***************************************************************************)
(* One call of an operation: its arguments, its locals and, for the        *)
(* properties, what it has done so far (exists: what the existence check   *)
(* answered; nonceReads, sends, polls: how often it read the nonce,        *)
(* submitted and looked for the receipt; pendingAtRead: the account's      *)
(* pending nonce at the moment the nonce was read).                        *)
(***************************************************************************)
IdleCall ==
    [pc |-> "idle", op |-> "none",
     token_uri |-> "", query_price_wei |-> None, file_id |-> "",
     data_class |-> "", data_value |-> "",
     token_id |-> None, query |-> "", payment_wei |-> None,
     gasPrice |-> None, nonce |-> None,
     signed_txn |-> NoTx, tx_hash |-> NoTx, receipt |-> NoReceipt,
     result |-> NoResult,
     exists |-> "unknown", nonceReads |-> 0, pendingAtRead |-> None,
     sends |-> 0, polls |-> 0]

\* Variant: mint_dat goes straight to building the transaction.
mint_dat_unchecked(token_uri, query_price_wei, file_id, data_class, data_value) ==
    [IdleCall EXCEPT !.pc = "gas_price", !.op = "mint_dat",
        !.token_uri = token_uri, !.query_price_wei = query_price_wei,
        !.file_id = file_id, !.data_class = data_class, !.data_value = data_value]

\* mint_dat(token_uri, query_price_wei, file_id, data_class, data_value) entered.
mint_dat(token_uri, query_price_wei, file_id, data_class, data_value) ==
    [IdleCall EXCEPT !.pc = "exists", !.op = "mint_dat",
        !.token_uri = token_uri, !.query_price_wei = query_price_wei,
        !.file_id = file_id, !.data_class = data_class, !.data_value = data_value]

\* pay_for_query(token_id, query, payment_wei) entered.
pay_for_query(token_id, query, payment_wei) ==
    [IdleCall EXCEPT !.pc = "gas_price", !.op = "pay_for_query",
        !.token_id = token_id, !.query = query, !.payment_wei = payment_wei]

\* get_dat_stats(token_id) entered.
get_dat_stats(token_id) ==
    [IdleCall EXCEPT !.pc = "stats", !.op = "get_dat_stats", !.token_id = token_id]

\* The transaction build_transaction makes of the call's arguments.
build_transaction(c) ==
    IF c.op = "mint_dat"
    THEN [op |-> "mintDataDAT", fileId |-> c.file_id, tokenURI |-> c.token_uri,
          queryPrice |-> c.query_price_wei, dataClass |-> c.data_class,
          dataValue |-> c.data_value, tokenId |-> None, query |-> "",
          value |-> 0, gas |-> MINT_GAS, gasPrice |-> c.gasPrice, nonce |-> c.nonce]
    ELSE [op |-> "payForQuery", fileId |-> "", tokenURI |-> "",
          queryPrice |-> None, dataClass |-> "", dataValue |-> "",
          tokenId |-> c.token_id, query |-> c.query,
          value |-> c.payment_wei, gas |-> PAY_GAS, gasPrice |-> c.gasPrice,
          nonce |-> c.nonce]

\* Variant: a receipt timeout sends the call back to the submission.
except_handler_resubmit(c, e) ==
    IF e = "timeout"
    THEN [c EXCEPT !.pc = "send", !.polls = 0]
    ELSE [c EXCEPT !.pc = "return", !.result = Failure(e)]

\* Variant: a receipt timeout is reported as a confirmed transaction.
except_handler_assume_confirmed(c, e) ==
    IF e = "timeout"
    THEN [c EXCEPT !.pc = "return",
                   !.result = [NoResult EXCEPT
                                  !.keys = {"success", "transaction_hash", "block_number"},
                                  !.success = TRUE,
                                  !.transaction_hash = c.tx_hash,
                                  !.block_number = blockNumber]]
    ELSE [c EXCEPT !.pc = "return", !.result = Failure(e)]

\* Variant: a rejected submission is followed by the receipt wait.
except_handler_wait_anyway(c, e) ==
    IF e = "submission rejected"
    THEN [c EXCEPT !.pc = "wait"]
    ELSE [c EXCEPT !.pc = "return", !.result = Failure(e)]

\* Variant: only the ValueError of the existence check is caught; any other
\* exception leaves the call without a result.
except_handler_value_error_only(c, e) ==
    IF e = "File ID already exists"
    THEN [c EXCEPT !.pc = "return", !.result = Failure(e)]
    ELSE [c EXCEPT !.pc = "return", !.result = NoResult]

\* `except Exception as e': the call returns the failure dict.
except_handler(c, e) ==
    [c EXCEPT !.pc = "return", !.result = Failure(e)]

\* Variant: the answer of the existence check is ignored.
raise_if_exists_never(exists) == FALSE

\* `if self.contract.functions.fileIdExists(file_id).call(): raise ValueError'.
raise_if_exists(exists) == exists

\* Variant: any receipt counts as success.
receipt_status_ok_any(receipt) == TRUE

\* `if receipt.status == 1'.
receipt_status_ok(receipt) == receipt.status = 1

\* `token_id = receipt.blockNumber'.
token_id_of(receipt) == receipt.blockNumber

\* Variant: the wait has no timeout.
time_exhausted_never(polls) == FALSE

\* wait_for_transaction_receipt gives up (TimeExhausted) once the timeout
\* has elapsed, that is after MaxPolls looks for the receipt.
time_exhausted(polls) == polls >= MaxPolls

\* A step leaves the call at c; a call that has returned is logged together
\* with its result and the instance is idle again.  The counter of the wait
\* loop is a local of the wait and is gone with it.
Commit(i, c) ==
    IF c.pc = "return"
    THEN /\ log' = [log EXCEPT ![i] = Append(@, [c EXCEPT !.polls = 0])]
         /\ call' = [call EXCEPT ![i] = IdleCall]
    ELSE /\ call' = [call EXCEPT ![i] = c]
         /\ log' = log

(***************************************************************************)
(* The steps of mint_dat and pay_for_query.  Every request to the node may *)
(* raise (the endpoint does not answer); the except branch of the          *)
(* operation turns whatever is raised into the failure dict.               *)
(***************************************************************************)
\* mint_dat: the existence check, `fileIdExists(file_id).call()'.
CheckExists(i) ==
    /\ call[i].pc = "exists"
    /\ \/ Commit(i, except_handler(call[i], "request failed"))
       \/ LET e == fileIdExists(dats, call[i].file_id)
              c == [call[i] EXCEPT !.exists = IF e THEN "true" ELSE "false"]
          IN  IF raise_if_exists(e)
              THEN Commit(i, except_handler(c, "File ID already exists"))
              ELSE Commit(i, [c EXCEPT !.pc = "gas_price"])
    /\ UNCHANGED <<ledger, mainpc, run>>

\* Variant: the gas price of the instance's previous call is used again.
ReadGasPrice_cached(i) ==
    /\ call[i].pc = "gas_price"
    /\ \/ Commit(i, except_handler(call[i], "request failed"))
       \/ Commit(i, [call[i] EXCEPT
                        !.gasPrice = IF Len(log[i]) > 0 /\ log[i][Len(log[i])].gasPrice # None
                                     THEN log[i][Len(log[i])].gasPrice
                                     ELSE netGasPrice,
                        !.pc = "nonce"])
    /\ UNCHANGED <<ledger, mainpc, run>>

\* `'gasPrice': self.w3.eth.gas_price'.
ReadGasPrice(i) ==
    /\ call[i].pc = "gas_price"
    /\ \/ Commit(i, except_handler(call[i], "request failed"))
       \/ Commit(i, [call[i] EXCEPT !.gasPrice = netGasPrice, !.pc = "nonce"])
    /\ UNCHANGED <<ledger, mainpc, run>>

\* `'nonce': self.w3.eth.get_transaction_count(self.account_address)'.
ReadNonce(i) ==
    /\ call[i].pc = "nonce"
    /\ \/ Commit(i, except_handler(call[i], "request failed"))
       \/ Commit(i, [call[i] EXCEPT
                        !.nonce = get_transaction_count(default_block),
                        !.nonceReads = @ + 1,
                        !.pendingAtRead = get_transaction_count("pending"),
                        !.pc = "sign"])
    /\ UNCHANGED <<ledger, mainpc, run>>

\* build_transaction and `sign_transaction(transaction, self.private_key)'.
BuildAndSign(i) ==
    /\ call[i].pc = "sign"
    /\ \/ Commit(i, except_handler(call[i], "build failed"))
       \/ Commit(i, [call[i] EXCEPT !.signed_txn = build_transaction(call[i]),
                                    !.pc = "send"])
    /\ UNCHANGED <<ledger, mainpc, run>>

\* `tx_hash = self.w3.eth.send_raw_transaction(signed_txn.rawTransaction)':
\* the node takes the transaction into its pool or rejects it.
send_raw_transaction(i) ==
    /\ call[i].pc = "send"
    /\ LET c == [call[i] EXCEPT !.sends = @ + 1]
       IN  \/ /\ Commit(i, except_handler(c, "submission rejected"))
              /\ mempool' = mempool
           \/ /\ PoolTakes(c.signed_txn)
              /\ mempool' = PoolAfter(c.signed_txn)
              /\ Commit(i, [c EXCEPT !.tx_hash = c.signed_txn, !.pc = "wait"])
    /\ UNCHANGED <<dats, receipts, txCount, blockNumber, netGasPrice, mainpc, run>>

\* `receipt = self.w3.eth.wait_for_transaction_receipt(tx_hash)': one look
\* for the receipt; web3 sleeps and looks again until the timeout elapses.
wait_for_transaction_receipt(i) ==
    /\ call[i].pc = "wait"
    /\ LET c == [call[i] EXCEPT !.polls = @ + 1]
       IN  \/ Commit(i, except_handler(c, "request failed"))
           \/ /\ HasReceipt(c.tx_hash)
              /\ Commit(i, [c EXCEPT !.receipt = [status |-> ReceiptOf(c.tx_hash).status,
                                                  blockNumber |-> ReceiptOf(c.tx_hash).blockNumber],
                                     !.pc = "result"])
           \/ /\ ~HasReceipt(c.tx_hash)
              /\ IF time_exhausted(c.polls)
                 THEN Commit(i, except_handler(c, "timeout"))
                 ELSE Commit(i, c)
    /\ UNCHANGED <<ledger, mainpc, run>>

\* `if receipt.status == 1: return {...} else: raise Exception(...)'.
ReturnResult(i) ==
    /\ call[i].pc = "result"
    /\ LET c == call[i]
       IN  IF receipt_status_ok(c.receipt)
           THEN Commit(i, [c EXCEPT !.pc = "return",
                              !.result = IF c.op = "mint_dat"
                                         THEN MintSuccess(c, token_id_of(c.receipt))
                                         ELSE PaySuccess(c)])
           ELSE Commit(i, except_handler(c, "Transaction failed"))
    /\ UNCHANGED <<ledger, mainpc, run>>

\* Variant: the stats are read with a transaction instead of a call.
ReadStats_transact(i) ==
    /\ call[i].pc = "stats"
    /\ LET c == call[i]
           tx == build_transaction([c EXCEPT !.op = "pay_for_query", !.payment_wei = 0,
                                             !.gasPrice = netGasPrice, !.nonce = txCount])
       IN  /\ mempool' = mempool \cup {tx}
           /\ Commit(i, [c EXCEPT !.pc = "return",
                            !.result = StatsSuccess(c, [totalQueries |-> 0,
                                                        totalEarned |-> 0,
                                                        isActive |-> FALSE])])
    /\ UNCHANGED <<dats, receipts, txCount, blockNumber, netGasPrice, mainpc, run>>

\* get_dat_stats: `stats = self.contract.functions.getDATStats(token_id).call()'.
\* For a token that was never minted the contract either reverts or answers
\* with the empty record.
ReadStats(i) ==
    /\ call[i].pc = "stats"
    /\ LET c == call[i]
       IN  \/ Commit(i, except_handler(c, "request failed"))
           \/ /\ TokenMinted(dats, c.token_id)
              /\ Commit(i, [c EXCEPT !.pc = "return",
                               !.result = StatsSuccess(c, getDATStats(dats, c.token_id))])
           \/ /\ ~TokenMinted(dats, c.token_id)
              /\ \/ Commit(i, except_handler(c, "execution reverted"))
                 \/ Commit(i, [c EXCEPT !.pc = "return",
                                  !.result = StatsSuccess(c, [totalQueries |-> 0,
                                                              totalEarned |-> 0,
                                                              isActive |-> FALSE])])
    /\ UNCHANGED <<ledger, mainpc, run>>

(***************************************************************************)
(* Callers.  A plain caller ("free") calls the operations of its instance  *)
(* one after the other with arguments of its choice; main runs the example *)
(* workflow.                                                               *)
(***************************************************************************)
MainFileId == "f1"
MainPrice == 1        \* query_price_wei, in units of 10^15 wei

Idle(i) == call[i].pc = "idle"

CanCall(i) == mainpc[i] = "free" /\ Idle(i) /\ Len(log[i]) < MaxCalls

CallMint(i) ==
    /\ CanCall(i)
    /\ \E u \in TokenURIs, p \in Prices, f \in FileIds, dc \in DataClasses, dv \in DataValues :
          call' = [call EXCEPT ![i] = mint_dat(u, p, f, dc, dv)]
    /\ UNCHANGED <<ledger, log, mainpc, run>>

\* The token ids a caller passes: the ones its mints returned, or one it knows.
ReturnedTokens(i) ==
    {log[i][k].result.token_id : k \in {j \in 1 .. Len(log[i]) :
        log[i][j].op = "mint_dat" /\ log[i][j].result.success}}

CallPay(i) ==
    /\ CanCall(i)
    /\ \E t \in TokenArgs \cup ReturnedTokens(i), q \in Queries, p \in Payments :
          call' = [call EXCEPT ![i] = pay_for_query(t, q, p)]
    /\ UNCHANGED <<ledger, log, mainpc, run>>

CallStats(i) ==
    /\ CanCall(i)
    /\ \E t \in TokenArgs \cup ReturnedTokens(i) :
          call' = [call EXCEPT ![i] = get_dat_stats(t)]
    /\ UNCHANGED <<ledger, log, mainpc, run>>

\* main: `balance = integration.get_balance_eth()'; what it raises ends main.
MainBalance(i) ==
    /\ mainpc[i] = "balance"
    /\ \E next \in {"mint", "done"} : mainpc' = [mainpc EXCEPT ![i] = next]
    /\ UNCHANGED <<ledger, call, log, run>>

\* main: `result = integration.mint_dat(...)'.
MainMint(i) ==
    /\ mainpc[i] = "mint" /\ Idle(i)
    /\ \E u \in TokenURIs, dc \in DataClasses, dv \in DataValues :
          call' = [call EXCEPT ![i] = mint_dat(u, MainPrice, MainFileId, dc, dv)]
    /\ mainpc' = [mainpc EXCEPT ![i] = "minting"]
    /\ UNCHANGED <<ledger, log, run>>

\* main's variable result: what its mint_dat call returned.
MainResult(i) == log[i][1].result

\* main: `if result['success']: query_result = integration.pay_for_query(...)'.
MainPay(i) ==
    /\ mainpc[i] = "minting" /\ Idle(i)
    /\ IF MainResult(i).success
       THEN /\ \E q \in Queries :
                 call' = [call EXCEPT ![i] =
                             pay_for_query(MainResult(i).token_id, q, MainPrice)]
            /\ mainpc' = [mainpc EXCEPT ![i] = "paying"]
       ELSE /\ mainpc' = [mainpc EXCEPT ![i] = "done"]
            /\ call' = call
    /\ UNCHANGED <<ledger, log, run>>

\* Variant: main pays again when the payment failed.
MainStats_pay_again(i) ==
    /\ mainpc[i] = "paying" /\ Idle(i)
    /\ \E q \in Queries :
          call' = [call EXCEPT ![i] =
                      IF log[i][Len(log[i])].result.success
                      THEN get_dat_stats(MainResult(i).token_id)
                      ELSE pay_for_query(MainResult(i).token_id, q, MainPrice)]
    /\ mainpc' = [mainpc EXCEPT ![i] = "reading"]
    /\ UNCHANGED <<ledger, log, run>>

\* main: `stats = integration.get_dat_stats(result['token_id'])', whatever
\* query_result says.
MainStats(i) ==
    /\ mainpc[i] = "paying" /\ Idle(i)
    /\ call' = [call EXCEPT ![i] = get_dat_stats(MainResult(i).token_id)]
    /\ mainpc' = [mainpc EXCEPT ![i] = "reading"]
    /\ UNCHANGED <<ledger, log, run>>

\* main: the stats are printed and main ends.
MainEnd(i) ==
    /\ mainpc[i] = "reading" /\ Idle(i)
    /\ mainpc' = [mainpc EXCEPT ![i] = "done"]
    /\ UNCHANGED <<ledger, call, log, run>>

(***************************************************************************)
(* The ledger: block production and the loss of pooled transactions.       *)
(***************************************************************************)
\* A block with the account's next transaction: the contract runs it, the
\* receipt tells whether it reverted.
Mine ==
    /\ blockNumber < MaxBlock
    /\ \E tx \in mempool :
          /\ tx.nonce = txCount
          /\ mempool' = mempool \ {tx}
          /\ IF TxReverts(dats, tx)
             THEN /\ dats' = dats
                  /\ receipts' = receipts \cup
                        {[tx |-> tx, status |-> 0, blockNumber |-> blockNumber + 1]}
             ELSE /\ dats' = TxApply(dats, tx)
                  /\ receipts' = receipts \cup
                        {[tx |-> tx, status |-> 1, blockNumber |-> blockNumber + 1]}
    /\ txCount' = txCount + 1
    /\ blockNumber' = blockNumber + 1
    /\ UNCHANGED <<netGasPrice, call, log, mainpc, run>>

\* A block without a transaction of the account.
MineEmpty ==
    /\ blockNumber < MaxBlock
    /\ blockNumber' = blockNumber + 1
    /\ UNCHANGED <<dats, mempool, receipts, txCount, netGasPrice, call, log, mainpc, run>>

\* A block in which another account mints a DAT.
OtherMint ==
    /\ blockNumber < MaxBlock
    /\ \E u \in TokenURIs, p \in Prices, f \in FileIds, dc \in DataClasses, dv \in DataValues :
          LET tx == [fileId |-> f, tokenURI |-> u, queryPrice |-> p,
                     dataClass |-> dc, dataValue |-> dv]
          IN  /\ ~mintDataDATReverts(dats, tx)
              /\ dats' = mintDataDAT(dats, tx)
    /\ blockNumber' = blockNumber + 1
    /\ UNCHANGED <<mempool, receipts, txCount, netGasPrice, call, log, mainpc, run>>

\* The node drops a pooled transaction; it never gets a receipt.
Drop ==
    /\ \E tx \in mempool : mempool' = mempool \ {tx}
    /\ UNCHANGED <<dats, receipts, txCount, blockNumber, netGasPrice, call, log, mainpc, run>>

(***************************************************************************)
(* The specification: one instance, driven by main or by a plain caller,   *)
(* against a contract that starts without records.  The second instance    *)
(* is not started ("off").                                                 *)
(***************************************************************************)
InitLedger ==
    /\ dats = << >>
    /\ mempool = {}
    /\ receipts = {}
    /\ txCount = 0
    /\ blockNumber = 1
    /\ netGasPrice = 1

Init ==
    /\ InitLedger
    /\ call = [i \in Instances |-> IdleCall]
    /\ log = [i \in Instances |-> << >>]
    /\ \E d \in {"balance", "free"} :
          mainpc = [i \in Instances |-> IF i = "i1" THEN d ELSE "off"]
    /\ run = [i \in Instances |-> Constructed]

OperationStep(i) ==
    \/ CheckExists(i)
    \/ ReadGasPrice(i)
    \/ ReadNonce(i)
    \/ BuildAndSign(i)
    \/ send_raw_transaction(i)
    \/ wait_for_transaction_receipt(i)
    \/ ReturnResult(i)
    \/ ReadStats(i)

CallerStep(i) ==
    \/ CallMint(i)
    \/ CallPay(i)
    \/ CallStats(i)

MainStep(i) ==
    \/ MainBalance(i)
    \/ MainMint(i)
    \/ MainPay(i)
    \/ MainStats(i)
    \/ MainEnd(i)

LedgerStep == Mine \/ MineEmpty \/ OtherMint \/ Drop

Next ==
    \/ \E i \in Instances : OperationStep(i) \/ CallerStep(i) \/ MainStep(i)
    \/ LedgerStep

Spec == Init /\ [][Next]_vars

\* The run of main alone, under the scheduling of a running Python process:
\* an operation that has a step to take takes it, and so does main.
MainInit ==
    /\ InitLedger
    /\ call = [i \in Instances |-> IdleCall]
    /\ log = [i \in Instances |-> << >>]
    /\ mainpc = [i \in Instances |-> IF i = "i1" THEN "balance" ELSE "off"]
    /\ run = [i \in Instances |-> Constructed]

MainNext ==
    \/ \E i \in Instances : OperationStep(i) \/ MainStep(i)
    \/ LedgerStep

FairSpec ==
    /\ MainInit /\ [][MainNext]_vars
    /\ \A i \in Instances : WF_vars(OperationStep(i)) /\ WF_vars(MainStep(i))

\* The gas prices the node quotes.
GasPrices == {1, 2}

\* The node quotes a higher gas price.
GasPriceRise ==
    /\ \E g \in GasPrices : g > netGasPrice /\ netGasPrice' = g
    /\ UNCHANGED <<dats, mempool, receipts, txCount, blockNumber, call, log, mainpc, run>>

\* The steps of the two write operations.
WriteStep(i) ==
    \/ CheckExists(i)
    \/ ReadGasPrice(i)
    \/ ReadNonce(i)
    \/ BuildAndSign(i)
    \/ send_raw_transaction(i)
    \/ wait_for_transaction_receipt(i)
    \/ ReturnResult(i)

\* One instance whose caller writes, while the gas price moves.
WriteInit ==
    /\ InitLedger
    /\ call = [i \in Instances |-> IdleCall]
    /\ log = [i \in Instances |-> << >>]
    /\ mainpc = [i \in Instances |-> IF i = "i1" THEN "free" ELSE "off"]
    /\ run = [i \in Instances |-> Constructed]

WriteNext ==
    \/ \E i \in Instances : WriteStep(i) \/ CallMint(i) \/ CallPay(i)
    \/ Mine
    \/ Drop
    \/ GasPriceRise

WriteSpec == WriteInit /\ [][WriteNext]_vars

\* Two runs of main at the same time, with the same PRIVATE_KEY: two
\* instances that write from one account and mint the same file id.
ConcInit ==
    /\ InitLedger
    /\ call = [i \in Instances |-> IdleCall]
    /\ log = [i \in Instances |-> << >>]
    /\ mainpc = [i \in Instances |-> "balance"]
    /\ run = [i \in Instances |-> Constructed]

ConcSpec == ConcInit /\ [][MainNext]_vars

(***************************************************************************)
(* The constructor and the script Dat.py.                                  *)
(***************************************************************************)
\* Variant: the constructor probes the endpoint before it checks its settings.
init_outcome_probe_first(r, rest_ok) ==
    IF ~r.alive THEN [instance |-> "ConnectionError", probes |-> 1]
    ELSE IF ~r.contract_address
    THEN [instance |-> "ValueError: Contract address not provided", probes |-> 1]
    ELSE IF ~r.private_key
    THEN [instance |-> "ValueError: Private key not provided", probes |-> 1]
    ELSE IF ~rest_ok THEN [instance |-> "Exception", probes |-> 1]
    ELSE [instance |-> "usable", probes |-> 1]

\* DataStreamDATIntegration.__init__: what it raises, or "usable", and how
\* often it has asked the endpoint `is_connected()'.  rest_ok: loading the
\* ABI, building the contract object and the account raise nothing.
init_outcome(r, rest_ok) ==
    IF ~r.contract_address
    THEN [instance |-> "ValueError: Contract address not provided", probes |-> 0]
    ELSE IF ~r.private_key
    THEN [instance |-> "ValueError: Private key not provided", probes |-> 0]
    ELSE IF ~r.alive THEN [instance |-> "ConnectionError", probes |-> 1]
    ELSE IF ~rest_ok THEN [instance |-> "Exception", probes |-> 1]
    ELSE [instance |-> "usable", probes |-> 1]

\* main: `integration = DataStreamDATIntegration()'; an exception of the
\* constructor is printed by main's except branch, which ends main.
MainConstruct(i) ==
    /\ mainpc[i] = "construct"
    /\ \E rest_ok \in BOOLEAN :
          LET o == init_outcome(run[i], rest_ok)
          IN  /\ run' = [run EXCEPT ![i].instance = o.instance, ![i].probes = o.probes]
              /\ mainpc' = [mainpc EXCEPT ![i] =
                               IF o.instance = "usable" THEN "balance" ELSE "done"]
    /\ UNCHANGED <<ledger, call, log>>

\* Dat.py main: the check of PRIVATE_KEY and IPFS_JWT.
DatEnv(i) ==
    /\ mainpc[i] = "dat_env"
    /\ IF run[i].private_key /\ run[i].ipfs_jwt
       THEN /\ mainpc' = [mainpc EXCEPT ![i] = "dat_client"]
            /\ run' = run
       ELSE /\ mainpc' = [mainpc EXCEPT ![i] = "done"]
            /\ run' = [run EXCEPT ![i].exit = 1]
    /\ UNCHANGED <<ledger, call, log>>

\* Dat.py main: the import of alith, `LazAIClient(private_key=...)' and the
\* file id computed from the data and the clock.
DatClient(i) ==
    /\ mainpc[i] = "dat_client"
    /\ \/ /\ mainpc' = [mainpc EXCEPT ![i] = "done"]
          /\ run' = [run EXCEPT ![i].exit = 1]
       \/ \E f \in FileIds :
             /\ mainpc' = [mainpc EXCEPT ![i] = "dat_mint"]
             /\ run' = [run EXCEPT ![i].file_id = f]
    /\ UNCHANGED <<ledger, call, log>>

\* Dat.py main: `dat_info = {'transaction_hash': ..., 'token_id': ...,
\* 'status': 'success'}', printed after "DAT minted successfully!".
DatMint(i) ==
    /\ mainpc[i] = "dat_mint"
    /\ run' = [run EXCEPT ![i].dat_info =
                  [transaction_hash |-> [op |-> "sha256", file_id |-> run[i].file_id],
                   token_id |-> <<"dat_", run[i].file_id>>,
                   status |-> "success"]]
    /\ mainpc' = [mainpc EXCEPT ![i] = "dat_save"]
    /\ UNCHANGED <<ledger, call, log>>

\* Dat.py main: file_id.txt is written and the file id returned, or the
\* write raises and the script exits with 1.
DatSave(i) ==
    /\ mainpc[i] = "dat_save"
    /\ \/ run' = [run EXCEPT ![i].exit = 1]
       \/ run' = [run EXCEPT ![i].files = @ \cup {"file_id.txt"}]
    /\ mainpc' = [mainpc EXCEPT ![i] = "done"]
    /\ UNCHANGED <<ledger, call, log>>

RunStep(i) ==
    \/ MainConstruct(i)
    \/ DatEnv(i)
    \/ DatClient(i)
    \/ DatMint(i)
    \/ DatSave(i)

\* One process started from the command line: contract_integration.py or
\* Dat.py, under any environment.
RunInit ==
    /\ InitLedger
    /\ call = [i \in Instances |-> IdleCall]
    /\ log = [i \in Instances |-> << >>]
    /\ \E d \in {"construct", "dat_env"} :
          mainpc = [i \in Instances |-> IF i = "i1" THEN d ELSE "off"]
    /\ \E a, k, j, e \in BOOLEAN :
          run = [i \in Instances |->
                    IF i = "i1"
                    THEN [Constructed EXCEPT !.contract_address = a, !.private_key = k,
                              !.ipfs_jwt = j, !.alive = e,
                              !.instance = "none", !.probes = 0]
                    ELSE Constructed]

RunNext ==
    \/ \E i \in Instances : OperationStep(i) \/ MainStep(i) \/ RunStep(i)
    \/ LedgerStep

RunSpec == RunInit /\ [][RunNext]_vars

(***************************************************************************)
(* The script enhanced_dat.py.                                             *)
(***************************************************************************)
\* upload_metadata_to_ipfs: the URI of its except branch.
PlaceholderURI == "https://ipfs.io/ipfs/QmMetadata"

\* sys.exit(status) in main.
sys_exit(i, status) ==
    /\ mainpc' = [mainpc EXCEPT ![i] = "enh_done"]
    /\ run' = [run EXCEPT ![i].exit = status]

\* enhanced_dat.py main: the check of PRIVATE_KEY, IPFS_JWT and
\* DAT_CONTRACT_ADDRESS.
EnhEnv(i) ==
    /\ mainpc[i] = "enh_env"
    /\ IF run[i].private_key /\ run[i].ipfs_jwt /\ run[i].contract_address
       THEN mainpc' = [mainpc EXCEPT ![i] = "enh_input"] /\ run' = run
       ELSE sys_exit(i, 1)
    /\ UNCHANGED <<ledger, call, log>>

\* enhanced_dat.py main: what the user types: no data or a price that is no
\* number end the run with 1, no confirmation with 0.
EnhInput(i) ==
    /\ mainpc[i] = "enh_input"
    /\ \/ sys_exit(i, 1)
       \/ sys_exit(i, 0)
       \/ mainpc' = [mainpc EXCEPT ![i] = "enh_upload"] /\ run' = run
    /\ UNCHANGED <<ledger, call, log>>

\* enhanced_dat.py main, step 1: `upload_result = upload_data_to_lazai(...)'
\* and `if not upload_result['success']: sys.exit(1)'.
EnhUpload(i) ==
    /\ mainpc[i] = "enh_upload"
    /\ \/ /\ mainpc' = [mainpc EXCEPT ![i] = "enh_done"]
          /\ run' = [run EXCEPT ![i].upload = "failed", ![i].exit = 1]
       \/ \E f \in FileIds :
             /\ mainpc' = [mainpc EXCEPT ![i] = "enh_construct"]
             /\ run' = [run EXCEPT ![i].upload = "ok", ![i].file_id = f]
    /\ UNCHANGED <<ledger, call, log>>

\* enhanced_dat.py main, step 2: `DataStreamDATIntegration()'; what it raises
\* reaches `except Exception', which exits with 1.
EnhConstruct(i) ==
    /\ mainpc[i] = "enh_construct"
    /\ \E rest_ok \in BOOLEAN :
          LET o == init_outcome(run[i], rest_ok)
          IN  /\ run' = [run EXCEPT ![i].instance = o.instance, ![i].probes = o.probes,
                                    ![i].exit = IF o.instance = "usable" THEN @ ELSE 1]
              /\ mainpc' = [mainpc EXCEPT ![i] =
                               IF o.instance = "usable" THEN "enh_metadata" ELSE "enh_done"]
    /\ UNCHANGED <<ledger, call, log>>

\* Variant: a failure of the metadata upload ends the run.
EnhMetadata_raise(i) ==
    /\ mainpc[i] = "enh_metadata"
    /\ \/ /\ mainpc' = [mainpc EXCEPT ![i] = "enh_done"]
          /\ run' = [run EXCEPT ![i].metadata_failed = TRUE, ![i].exit = 1]
       \/ \E u \in TokenURIs :
             /\ mainpc' = [mainpc EXCEPT ![i] = "enh_mint"]
             /\ run' = [run EXCEPT ![i].token_uri = u]
    /\ UNCHANGED <<ledger, call, log>>

\* enhanced_dat.py main, step 3: `token_uri = upload_metadata_to_ipfs(metadata)',
\* which returns the URI of the upload or, when anything raised, the
\* placeholder.
EnhMetadata(i) ==
    /\ mainpc[i] = "enh_metadata"
    /\ \/ run' = [run EXCEPT ![i].metadata_failed = TRUE, ![i].token_uri = PlaceholderURI]
       \/ \E u \in TokenURIs : run' = [run EXCEPT ![i].token_uri = u]
    /\ mainpc' = [mainpc EXCEPT ![i] = "enh_mint"]
    /\ UNCHANGED <<ledger, call, log>>

\* enhanced_dat.py main, step 4: `mint_result = contract_integration.mint_dat(...)'.
EnhMint(i) ==
    /\ mainpc[i] = "enh_mint" /\ Idle(i)
    /\ \E p \in Prices, dc \in DataClasses, dv \in DataValues :
          call' = [call EXCEPT ![i] = mint_dat(run[i].token_uri, p, run[i].file_id, dc, dv)]
    /\ mainpc' = [mainpc EXCEPT ![i] = "enh_minting"]
    /\ UNCHANGED <<ledger, log, run>>

\* Variant: the results are saved whatever mint_dat returned.
EnhMinted_save_always(i) ==
    /\ mainpc[i] = "enh_minting" /\ Idle(i)
    /\ mainpc' = [mainpc EXCEPT ![i] = "enh_save_results"]
    /\ UNCHANGED <<ledger, call, log, run>>

\* enhanced_dat.py main: `if not mint_result['success']: sys.exit(1)'.
EnhMinted(i) ==
    /\ mainpc[i] = "enh_minting" /\ Idle(i)
    /\ IF log[i][Len(log[i])].result.success
       THEN mainpc' = [mainpc EXCEPT ![i] = "enh_save_results"] /\ run' = run
       ELSE sys_exit(i, 1)
    /\ UNCHANGED <<ledger, call, log>>

\* enhanced_dat.py main, step 5: dat_results.json is written, or the write
\* raises and `except Exception' exits with 1.
EnhSaveResults(i) ==
    /\ mainpc[i] = "enh_save_results"
    /\ \/ sys_exit(i, 1)
       \/ /\ run' = [run EXCEPT ![i].files = @ \cup {"dat_results.json"}]
          /\ mainpc' = [mainpc EXCEPT ![i] = "enh_save_file_id"]
    /\ UNCHANGED <<ledger, call, log>>

\* enhanced_dat.py main, step 5: file_id.txt is written and main returns, or
\* the write raises and `except Exception' exits with 1.
EnhSaveFileId(i) ==
    /\ mainpc[i] = "enh_save_file_id"
    /\ \/ sys_exit(i, 1)
       \/ /\ run' = [run EXCEPT ![i].files = @ \cup {"file_id.txt"}]
          /\ mainpc' = [mainpc EXCEPT ![i] = "enh_done"]
    /\ UNCHANGED <<ledger, call, log>>

EnhStep(i) ==
    \/ EnhEnv(i)
    \/ EnhInput(i)
    \/ EnhUpload(i)
    \/ EnhConstruct(i)
    \/ EnhMetadata(i)
    \/ EnhMint(i)
    \/ EnhMinted(i)
    \/ EnhSaveResults(i)
    \/ EnhSaveFileId(i)

\* One run of enhanced_dat.py, under any environment.
EnhInit ==
    /\ InitLedger
    /\ call = [i \in Instances |-> IdleCall]
    /\ log = [i \in Instances |-> << >>]
    /\ mainpc = [i \in Instances |-> IF i = "i1" THEN "enh_env" ELSE "off"]
    /\ \E a, k, j, e \in BOOLEAN :
          run = [i \in Instances |->
                    IF i = "i1"
                    THEN [Constructed EXCEPT !.contract_address = a, !.private_key = k,
                              !.ipfs_jwt = j, !.alive = e,
                              !.instance = "none", !.probes = 0]
                    ELSE Constructed]

EnhNext ==
    \/ \E i \in Instances : WriteStep(i) \/ EnhStep(i)
    \/ LedgerStep

EnhSpec == EnhInit /\ [][EnhNext]_vars

\* The same run under the scheduling of a running Python process: the
\* script and the operation it has called take the steps they can take.
EnhFairSpec ==
    /\ EnhInit /\ [][EnhNext]_vars
    /\ \A i \in Instances : WF_vars(WriteStep(i)) /\ WF_vars(EnhStep(i))

(***************************************************************************)
(* Properties.                                                             *)
(***************************************************************************)
Writes == {"mint_dat", "pay_for_query"}

\* The calls that have returned, and all calls including the ones running.
Returned == UNION {{log[i][k] : k \in 1 .. Len(log[i])} : i \in Instances}

Running == {call[i] : i \in {j \in Instances : ~Idle(j)}}

Calls == Returned \cup Running

\* C1: a mint_dat call whose existence check answered true returns the
\* duplicate-fileId failure without having called send_raw_transaction, and
\* its result carries no transaction hash.
C1_DuplicateMintNotSubmitted ==
    \A c \in Calls :
        (c.op = "mint_dat" /\ c.exists = "true") =>
            /\ c.pc = "return"
            /\ c.sends = 0
            /\ c.tx_hash = NoTx
            /\ ~c.result.success
            /\ c.result.error = "File ID already exists"
            /\ "transaction_hash" \notin c.result.keys

C1_Witness ==
    \E c \in Returned : c.op = "mint_dat" /\ c.exists = "true" /\ c.sends = 0

\* C3: a write call that saw a receipt whose status is not success returns
\* success = False without a token id, although it holds a transaction hash.
C3_FailedReceiptNeverSuccess ==
    \A c \in Returned :
        (c.op \in Writes /\ c.receipt # NoReceipt /\ c.receipt.status # 1) =>
            /\ c.tx_hash # NoTx
            /\ ~c.result.success
            /\ "token_id" \notin c.result.keys
            /\ c.result.token_id = None

\* A mint whose fileId somebody else minted after the existence check.
C3_Witness ==
    \E c \in Returned :
        /\ c.op = "mint_dat" /\ c.receipt.status = 0 /\ c.tx_hash # NoTx
        /\ ~c.result.success

\* C9: a write call calls send_raw_transaction at most once, also after a
\* rejected submission, a reverted receipt or a receipt timeout; it reads the
\* nonce and signs at most once as well.
C9_AtMostOneSubmission ==
    \A c \in Calls :
        /\ c.sends <= 1
        /\ c.nonceReads <= 1
        /\ (c.pc = "return" /\ c.result.error \in
                {"submission rejected", "Transaction failed", "timeout"}) => c.sends = 1

C9_Witness ==
    /\ \E c \in Returned : c.op \in Writes /\ c.sends = 1 /\ c.result.error = "timeout"
    /\ \E c \in Returned : c.op \in Writes /\ c.sends = 1 /\ c.result.error = "Transaction failed"

\* C10: a write call whose transaction was accepted and that ended without
\* a receipt returns a failure, without token id and without block number.
C10_NoReceiptNoSuccess ==
    \A c \in Returned :
        (c.op \in Writes /\ c.tx_hash # NoTx /\ c.receipt = NoReceipt) =>
            /\ ~c.result.success
            /\ c.result.error \in {"timeout", "request failed"}
            /\ c.result.keys \cap {"token_id", "block_number", "transaction_hash"} = {}
            /\ c.result.token_id = None
            /\ c.result.block_number = None

\* The transaction was accepted, then dropped, and the wait timed out.
C10_Witness ==
    \E c \in Returned :
        /\ c.op = "mint_dat" /\ c.tx_hash # NoTx
        /\ c.tx_hash \notin mempool /\ ~HasReceipt(c.tx_hash)
        /\ c.result.error = "timeout"

\* C2: a write call reads the nonce exactly once and the value it reads is
\* the account's pending nonce at that moment, so that a write following one
\* whose transaction is still pooled uses the next nonce.
C2_NonceIsPendingNonce ==
    \A c \in Calls :
        (c.op \in Writes /\ c.pc \in {"sign", "send", "wait", "result", "return"}
            /\ c.nonceReads > 0) =>
                /\ c.nonceReads = 1
                /\ c.nonce = c.pendingAtRead

\* C4: the token id a successful mint_dat returns is the tokenId under which
\* the contract holds the record of the minted fileId.
C4_TokenIdIsAssignedId ==
    \A c \in Returned :
        (c.op = "mint_dat" /\ c.result.success) =>
            /\ TokenMinted(dats, c.result.token_id)
            /\ dats[c.result.token_id].fileId = c.file_id

\* C5: a receipt wait looks for the receipt at most MaxPolls times, and a
\* call that waits for a receipt leaves the wait; when it ends without a
\* receipt (and the node answered) the call returns the timeout failure.
C5_WaitTerminates ==
    /\ [](\A c \in Calls : c.polls <= MaxPolls)
    /\ [](\A c \in Returned :
            (c.op \in Writes /\ c.tx_hash # NoTx /\ c.receipt = NoReceipt
                /\ c.result.error # "request failed") => c.result.error = "timeout")
    /\ \A i \in Instances : (call[i].pc = "wait") ~> (call[i].pc # "wait")

C5_Witness ==
    \E c \in Returned :
        /\ c.op = "pay_for_query" /\ c.tx_hash # NoTx
        /\ c.receipt = NoReceipt /\ c.result.error = "timeout"

\* C6: get_dat_stats called right after a successful mint_dat, on the token
\* id that mint returned, reports totalQueries = 0 and isActive = true.
C6_MintThenStats ==
    \A i \in Instances : \A k \in 1 .. Len(log[i]) - 1 :
        (/\ log[i][k].op = "mint_dat" /\ log[i][k].result.success
         /\ log[i][k + 1].op = "get_dat_stats"
         /\ log[i][k + 1].token_id = log[i][k].result.token_id
         /\ log[i][k + 1].result.error # "request failed") =>
            /\ log[i][k + 1].result.success
            /\ log[i][k + 1].result.total_queries = 0
            /\ log[i][k + 1].result.is_active

\* C7: after a successful mint_dat, a pay_for_query on the returned token id
\* with the query price as payment, whose transaction is mined, succeeds and
\* the get_dat_stats that follows reports totalQueries = 1.
C7_MintPayStats ==
    \A i \in Instances : \A k \in 1 .. Len(log[i]) - 2 :
        (/\ log[i][k].op = "mint_dat" /\ log[i][k].result.success
         /\ log[i][k + 1].op = "pay_for_query"
         /\ log[i][k + 1].token_id = log[i][k].result.token_id
         /\ log[i][k + 1].payment_wei = log[i][k].query_price_wei
         /\ log[i][k + 1].receipt # NoReceipt
         /\ log[i][k + 2].op = "get_dat_stats"
         /\ log[i][k + 2].token_id = log[i][k].result.token_id
         /\ log[i][k + 2].result.error # "request failed") =>
            /\ log[i][k + 1].result.success
            /\ log[i][k + 2].result.success
            /\ log[i][k + 2].result.total_queries = 1

\* C8: in main no operation is invoked after an operation that failed.
C8_FailureHaltsMain ==
    \A i \in Instances :
        mainpc[i] \in {"minting", "paying", "reading", "done"} =>
            \A k \in 1 .. Len(log[i]) :
                (k < Len(log[i]) \/ ~Idle(i)) => log[i][k].result.success

\* C15: a write call that fails after its submission was accepted, by a
\* receipt timeout or a reverted receipt, returns a result that names the
\* transaction: the key transaction_hash, or the message of the receipt
\* timeout, which quotes the hash.
C15_FailureCarriesHash ==
    \A c \in Returned :
        (/\ c.op \in Writes /\ c.tx_hash # NoTx /\ ~c.result.success
         /\ c.result.error = "timeout" \/ c.receipt.status = 0) =>
            \/ /\ "transaction_hash" \in c.result.keys
               /\ c.result.transaction_hash = c.tx_hash
            \/ c.result.error = "timeout"

\* The instances that run main.
RunsMain(i) == mainpc[i] \in {"balance", "mint", "minting", "paying", "reading", "done"}

\* C16: in main, once pay_for_query has failed after a successful mint_dat,
\* no write operation is called and nothing is submitted any more, the minted
\* record is still in the contract and the mint result still says success.
C16_NoRollback ==
    \A i \in Instances :
        (/\ RunsMain(i) /\ Len(log[i]) >= 2
         /\ log[i][1].op = "mint_dat" /\ log[i][1].result.success
         /\ log[i][2].op = "pay_for_query" /\ ~log[i][2].result.success) =>
            /\ \A k \in 3 .. Len(log[i]) :
                  log[i][k].op = "get_dat_stats" /\ log[i][k].sends = 0
            /\ ~Idle(i) => (call[i].op = "get_dat_stats" /\ call[i].sends = 0)
            /\ Len(log[i]) <= 3
            /\ fileIdExists(dats, log[i][1].file_id)
            /\ log[i][1].result.success
            /\ log[i][1].result.transaction_hash = log[i][1].tx_hash

\* The payment was mined and reverted, and main has finished.
C16_Witness ==
    \E i \in Instances :
        /\ mainpc[i] = "done" /\ Len(log[i]) = 3
        /\ log[i][1].result.success
        /\ log[i][2].op = "pay_for_query" /\ log[i][2].receipt.status = 0
        /\ fileIdExists(dats, log[i][1].file_id)

\* An instance takes the step of one of its reads.
ReadStep(i) == call[i].pc \in {"stats", "exists"} /\ call'[i] # call[i]

\* C18: get_dat_stats and the existence check submit nothing and leave the
\* pool, the account's transaction count, the receipts and the DAT records
\* as they are; a get_dat_stats call never reads the nonce nor signs.
C18_ReadsAreStateless ==
    /\ [](\A c \in Calls :
            c.op = "get_dat_stats" =>
                /\ c.sends = 0 /\ c.nonceReads = 0
                /\ c.signed_txn = NoTx /\ c.tx_hash = NoTx)
    /\ [](\A c \in Calls :
            (c.op = "mint_dat" /\ c.pc = "exists") =>
                c.sends = 0 /\ c.nonceReads = 0 /\ c.signed_txn = NoTx)
    /\ [][\A i \in Instances :
            ReadStep(i) =>
                /\ UNCHANGED <<dats, mempool, receipts, txCount, blockNumber, netGasPrice>>
                /\ mainpc' = mainpc]_vars

\* A read that ran while a transaction of the account was in the pool.
C18_Witness ==
    \E c \in Returned :
        /\ c.op = "get_dat_stats" /\ c.result.success
        /\ mempool # {}

\* C19: a mint_dat call reads the nonce and the gas price only after the
\* existence check answered false, signs only after both reads, submits only
\* what it signed, waits only for what it submitted and returns success only
\* with the receipt the wait gave it.
C19_MintStepOrder ==
    \A c \in Calls :
        c.op = "mint_dat" =>
            /\ (c.gasPrice # None \/ c.pc \in {"gas_price", "nonce"}) => c.exists = "false"
            /\ c.nonceReads > 0 => (c.exists = "false" /\ c.gasPrice # None)
            /\ c.signed_txn # NoTx =>
                  /\ c.nonceReads = 1
                  /\ c.signed_txn.nonce = c.nonce
                  /\ c.signed_txn.gasPrice = c.gasPrice
            /\ c.sends > 0 => c.signed_txn # NoTx
            /\ c.tx_hash # NoTx => (c.sends = 1 /\ c.tx_hash = c.signed_txn)
            /\ (c.polls > 0 \/ c.pc = "wait") => c.tx_hash # NoTx
            /\ c.receipt # NoReceipt => c.tx_hash # NoTx
            /\ c.pc = "result" => c.receipt # NoReceipt
            /\ c.result.success => (c.pc = "return" /\ c.receipt # NoReceipt)

C19_Witness ==
    \E c \in Returned :
        /\ c.op = "mint_dat" /\ c.result.success
        /\ c.exists = "false" /\ c.nonceReads = 1 /\ c.sends = 1
        /\ c.receipt.status = 1

\* C20: a write call whose submission the node rejected returns a failure
\* without transaction hash and has no receipt; only a call whose submission
\* was accepted waits for a receipt.
C20_RejectedSubmissionNoWait ==
    /\ \A c \in Returned :
          (c.op \in Writes /\ c.sends = 1 /\ c.tx_hash = NoTx) =>
              /\ ~c.result.success
              /\ c.result.error = "submission rejected"
              /\ "transaction_hash" \notin c.result.keys
              /\ c.result.transaction_hash = NoTx
              /\ c.receipt = NoReceipt
    /\ \A c \in Running :
          (c.pc \in {"wait", "result"} \/ c.polls > 0) => c.tx_hash # NoTx

\* Rejected because the nonce is the one of a pooled transaction.
C20_Witness ==
    \E c \in Returned :
        /\ c.op \in Writes /\ c.sends = 1 /\ c.tx_hash = NoTx
        /\ c.result.error = "submission rejected"
        /\ \E tx \in mempool : tx.nonce = c.nonce

\* C14: a mint is reported as successful only for a transaction that was
\* submitted and has a receipt with status 1, by mint_dat and by Dat.py.
C14_SuccessOnlyAfterConfirmation ==
    /\ \A c \in Returned :
          (c.op = "mint_dat" /\ c.result.success) =>
              /\ c.sends = 1 /\ c.result.transaction_hash = c.tx_hash
              /\ HasReceipt(c.tx_hash) /\ ReceiptOf(c.tx_hash).status = 1
    /\ \A i \in Instances :
          run[i].dat_info.status = "success" =>
              \E r \in receipts :
                  r.tx = run[i].dat_info.transaction_hash /\ r.status = 1

\* C17: a constructor that finds no contract address or no private key
\* raises ValueError without having asked the endpoint, one whose endpoint
\* does not answer raises ConnectionError, and an instance whose constructor
\* raised never runs an operation.
C17_FailedConstructionUnusable ==
    \A i \in Instances :
        LET r == run[i]
        IN  /\ (r.instance # "none" /\ ~r.contract_address) =>
                  (r.instance = "ValueError: Contract address not provided" /\ r.probes = 0)
            /\ (r.instance # "none" /\ r.contract_address /\ ~r.private_key) =>
                  (r.instance = "ValueError: Private key not provided" /\ r.probes = 0)
            /\ (r.instance # "none" /\ r.contract_address /\ r.private_key /\ ~r.alive) =>
                  (r.instance = "ConnectionError" /\ r.probes = 1)
            /\ r.instance = "usable" => (r.contract_address /\ r.private_key /\ r.alive)
            /\ r.instance \notin {"none", "usable"} =>
                  (log[i] = << >> /\ Idle(i) /\ mainpc[i] = "done")

\* A constructor that raised ConnectionError, with the chain having moved on.
C17_Witness ==
    \E i \in Instances :
        /\ run[i].instance = "ConnectionError" /\ run[i].probes = 1
        /\ mainpc[i] = "done" /\ log[i] = << >>
        /\ blockNumber > 1

\* The calls of one instance, returned or running.
CallsOf(i) ==
    {log[i][k] : k \in 1 .. Len(log[i])} \cup (IF Idle(i) THEN {} ELSE {call[i]})

\* An instance hands its signed transaction to the node.
SendStep(i) == call[i].pc = "send" /\ call'[i] # call[i]

\* C12: with two writers on one account, a writer never hands the node a
\* transaction whose nonce is the nonce of a transaction of the other writer
\* that is pooled or mined.
C12_NoNonceCollision ==
    [][\A i \in Instances :
          SendStep(i) =>
              \A j \in Instances \ {i} :
                  \A c \in CallsOf(j) :
                      (c.tx_hash # NoTx /\ (c.tx_hash \in mempool \/ HasReceipt(c.tx_hash))) =>
                          c.nonce # call[i].nonce]_vars

\* No two DAT records have the same fileId.
UniqueFileIds ==
    \A a, b \in 1 .. Len(dats) : a # b => dats[a].fileId # dats[b].fileId

\* C13 as stated: no two DAT records share a fileId, and the node accepts no
\* mint transaction of mint_dat for a fileId that has a record at that moment.
C13_NoMintForExistingFileId ==
    /\ [] UniqueFileIds
    /\ [][\A i \in Instances :
            (SendStep(i) /\ call[i].op = "mint_dat" /\ call'[i].pc = "wait") =>
                ~fileIdExists(dats, call[i].file_id)]_vars

\* C13, amended: no two DAT records share a fileId, and a mint_dat call whose
\* fileId has a record at the moment of its existence check returns a failure
\* at that step and submits nothing; every mint transaction submitted comes
\* from a call whose check answered false.
C13_NoMintForFileIdSeenAtCheck ==
    /\ [] UniqueFileIds
    /\ [](\A c \in Calls : (c.op = "mint_dat" /\ c.sends > 0) => c.exists = "false")
    /\ [][\A i \in Instances :
            (/\ call[i].pc = "exists" /\ call'[i] # call[i]
             /\ fileIdExists(dats, call[i].file_id)) =>
                /\ call'[i] = IdleCall
                /\ Len(log'[i]) = Len(log[i]) + 1
                /\ log'[i][Len(log'[i])].sends = 0
                /\ ~log'[i][Len(log'[i])].result.success
                /\ mempool' = mempool]_vars

\* Two runs minted the same fileId: one has its record, the other was turned
\* away by its existence check.
C13_Witness ==
    \E i, j \in Instances :
        /\ i # j
        /\ \E c \in CallsOf(i) : c.op = "mint_dat" /\ c.result.success
        /\ \E c \in CallsOf(j) :
              /\ c.op = "mint_dat" /\ c.exists = "true"
              /\ c.result.error = "File ID already exists"
              /\ fileIdExists(dats, c.file_id)

\* The transactions of an instance that are in flight: accepted by the node,
\* still pooled, not mined.
InFlight(i) == {c.tx_hash : c \in {d \in CallsOf(i) : d.tx_hash # NoTx}} \cap mempool

SignedTxs == {c.signed_txn : c \in {d \in Calls : d.signed_txn # NoTx}}

\* C21: every mint transaction has the gas limit 500000 and every payment
\* transaction 200000, whatever its arguments and the state of the network;
\* a write call starts without a gas price, takes the price the node quotes
\* at the moment of its own read and signs that price.
C21_FixedGasFreshPrice ==
    /\ [](\A tx \in SignedTxs \cup mempool \cup {r.tx : r \in receipts} :
            /\ tx.op = "mintDataDAT" => tx.gas = 500000
            /\ tx.op = "payForQuery" => tx.gas = 200000)
    /\ [](\A c \in Calls :
            /\ (c.op \in Writes /\ c.pc \in {"exists", "gas_price"}) => c.gasPrice = None
            /\ (c.op \in Writes /\ c.signed_txn # NoTx) => c.signed_txn.gasPrice = c.gasPrice)
    /\ [][\A i \in Instances :
            (call[i].pc = "gas_price" /\ call'[i].pc = "nonce") =>
                call'[i].gasPrice = netGasPrice]_vars

\* A mint and a payment of one instance, signed at different gas prices.
C21_Witness ==
    \E i \in Instances :
        /\ Len(log[i]) = 2
        /\ log[i][1].signed_txn # NoTx /\ log[i][2].signed_txn # NoTx
        /\ log[i][1].signed_txn.op = "mintDataDAT" /\ log[i][1].signed_txn.gas = 500000
        /\ log[i][2].signed_txn.op = "payForQuery" /\ log[i][2].signed_txn.gas = 200000
        /\ log[i][1].signed_txn.gasPrice < log[i][2].signed_txn.gasPrice

\* C22: every call of mint_dat, pay_for_query and get_dat_stats ends with a
\* result dict that has a boolean success, whichever step failed; a failure
\* names its error, and a write says success exactly when the call has seen
\* a receipt with status 1.
C22_EveryOutcomeIsAResult ==
    \A c \in Returned :
        /\ c.op \in Writes \cup {"get_dat_stats"}
        /\ "success" \in c.result.keys
        /\ c.result.success \in BOOLEAN
        /\ ~c.result.success => ("error" \in c.result.keys /\ c.result.error # "")
        /\ c.op \in Writes =>
              (c.result.success <=> (c.receipt # NoReceipt /\ c.receipt.status = 1))

\* One instance whose first call failed at the existence check's request and
\* whose second call was rejected at submission.
C22_Witness ==
    \E i \in Instances :
        /\ Len(log[i]) = 2
        /\ log[i][1].op = "mint_dat" /\ log[i][1].exists = "unknown"
        /\ log[i][1].result = Failure("request failed")
        /\ log[i][2].op \in Writes /\ log[i][2].sends = 1
        /\ log[i][2].result = Failure("submission rejected")

\* The mint_dat calls for a file id that returned success, by instance and
\* position.
SuccessfulMints(f) ==
    {ik \in Instances \X (1 .. MaxCalls + 1) :
        /\ ik[2] <= Len(log[ik[1]])
        /\ log[ik[1]][ik[2]].op = "mint_dat"
        /\ log[ik[1]][ik[2]].file_id = f
        /\ log[ik[1]][ik[2]].result.success}

\* C23: over the mint_dat calls an instance makes one after the other for
\* one file id, at most one returns success and the contract holds at most
\* one record of that file id.
C23_NoDoubleMint ==
    \A f \in FileIds :
        /\ Cardinality(SuccessfulMints(f)) <= 1
        /\ Cardinality({k \in 1 .. Len(dats) : dats[k].fileId = f}) <= 1

\* The first mint timed out, its transaction was mined later, and the mint
\* repeated for the same file id was turned away.
C23_Witness ==
    \E i \in Instances :
        /\ Len(log[i]) = 2
        /\ log[i][1].op = "mint_dat" /\ log[i][1].result.error = "timeout"
        /\ HasReceipt(log[i][1].tx_hash) /\ ReceiptOf(log[i][1].tx_hash).status = 1
        /\ log[i][2].op = "mint_dat" /\ log[i][2].file_id = log[i][1].file_id
        /\ ~log[i][2].result.success
        /\ Cardinality({k \in 1 .. Len(dats) : dats[k].fileId = log[i][1].file_id}) = 1

\* The instances that run the main of enhanced_dat.py.
RunsEnhanced(i) ==
    mainpc[i] \in {"enh_env", "enh_input", "enh_upload", "enh_construct", "enh_metadata",
                   "enh_mint", "enh_minting", "enh_save_results", "enh_save_file_id",
                   "enh_done"}

\* C24: in enhanced_dat.py, mint_dat is called only after the data upload
\* returned success (and then once, for the uploaded file id), the two result
\* files are written only after mint_dat returned success, and a run whose
\* upload or mint failed ends with exit status 1.
C24_EnhancedHaltsOnFailure ==
    \A i \in Instances :
        RunsEnhanced(i) =>
            /\ CallsOf(i) # {} =>
                  /\ run[i].upload = "ok" /\ run[i].instance = "usable"
                  /\ \A c \in CallsOf(i) : c.op = "mint_dat" /\ c.file_id = run[i].file_id
            /\ Len(log[i]) + (IF Idle(i) THEN 0 ELSE 1) <= 1
            /\ run[i].files # {} => (Len(log[i]) = 1 /\ log[i][1].result.success)
            /\ run[i].upload = "failed" =>
                  (mainpc[i] = "enh_done" /\ run[i].exit = 1 /\ CallsOf(i) = {})
            /\ (Len(log[i]) = 1 /\ ~log[i][1].result.success /\ mainpc[i] # "enh_minting") =>
                  (mainpc[i] = "enh_done" /\ run[i].exit = 1 /\ run[i].files = {})

\* The mint was mined and reverted, and the run ended with 1 and no file.
C24_Witness ==
    \E i \in Instances :
        /\ mainpc[i] = "enh_done" /\ run[i].exit = 1 /\ run[i].files = {}
        /\ Len(log[i]) = 1 /\ log[i][1].receipt.status = 0

\* C25: in enhanced_dat.py, a metadata upload that fails gives the
\* placeholder URI and leaves the run going: its next step is the mint_dat
\* call, made with the placeholder as token_uri, and every transaction that
\* call signs and submits carries the placeholder as tokenURI.
C25_PlaceholderIsMinted ==
    /\ [](\A i \in Instances :
            (RunsEnhanced(i) /\ run[i].metadata_failed) =>
                /\ run[i].token_uri = PlaceholderURI
                /\ \A c \in CallsOf(i) :
                      /\ c.token_uri = PlaceholderURI
                      /\ c.signed_txn # NoTx => c.signed_txn.tokenURI = PlaceholderURI
                      /\ c.tx_hash # NoTx => c.tx_hash.tokenURI = PlaceholderURI
                /\ (CallsOf(i) = {}) => (mainpc[i] = "enh_mint" /\ run[i].exit = None))
    /\ [][\A i \in Instances :
            (mainpc[i] = "enh_metadata" /\ mainpc'[i] # mainpc[i]) =>
                (mainpc'[i] = "enh_mint" /\ run'[i].exit = run[i].exit)]_vars
    /\ \A i \in Instances :
          (RunsEnhanced(i) /\ run[i].metadata_failed) ~>
              (\E c \in CallsOf(i) : c.op = "mint_dat" /\ c.token_uri = PlaceholderURI)

\* The record minted under the placeholder, and both files written.
C25_Witness ==
    \E i \in Instances :
        /\ run[i].metadata_failed /\ mainpc[i] = "enh_done"
        /\ run[i].files = {"dat_results.json", "file_id.txt"}
        /\ \E k \in 1 .. Len(dats) :
              dats[k].fileId = run[i].file_id /\ dats[k].tokenURI = PlaceholderURI

====
